---- MODULE Spec2Model ----
(***************************************************************************)
(* Model of main/gpg.c of the WiFi smartcard (ESP32): app_main, the three  *)
(* FreeRTOS tasks taskConnect, checkReset and wifiStatus, the WiFi event   *)
(* handler and the two button interrupt handlers.                          *)
(*                                                                         *)
(* The tasks are cut into steps at their blocking calls and at their       *)
(* accesses to the shared flags; each event / interrupt handler is one     *)
(* step.                                                                   *)
(* Locals of taskConnect that are dead (overwritten before the next read)  *)
(* are put back to their initial value when they die.                      *)
(***************************************************************************)
EXTENDS Integers, Naturals, Sequences, FiniteSets, TLC

\* ---- bounds of the model ------------------------------------------------
NUMOFNETS == 3          \* netlist.h: number of candidate networks
MaxDisc   == NUMOFNETS       \* STA_DISCONNECTED events delivered per boot

\* ---- program constants --------------------------------------------------
GateLimit  == 30        \* while (proceed == 0 && time < 30)
Countdown  == 3         \* for (int countdown = 3; ...)
CLA_CHAIN  == 16        \* 0x10
INS_AUTH   == 136       \* 0x88
INS_PSO    == 42        \* 0x2A
INS_CHAL   == 132       \* 0x84
SW1_BLOCK  == 105       \* 0x69
SW2_BLOCK  == 131       \* 0x83

VARIABLES
    \* persistent (survives esp_restart)
    nvsKey,         \* NVS holds the key "initialized"
    \* shared volatile state
    connected, proceed, hardRst,    \* gpg.c:56-58
    connectedBit,   \* CONNECTED_BIT of wifiEventGroup
    nextNet, currNet,               \* netlist.h indices
    mounted,        \* s_wl_handle is a live mount
    led25, led26,   \* GPIO_NUM_25 / GPIO_NUM_26 output level
    link,           \* WiFi driver: "off", "starting", "connecting", "up"
    \* taskConnect
    pc, err, peer, sockOpen, comAPDU, time, output, countdown,
    \* checkReset, wifiStatus
    rpc, wpc, toggle,
    \* history (observations of what the code did)
    gate,           \* resolution of the button wait for the current command
    pressed,        \* when proceedHandle first fired during the current wait
    stale,          \* proceed was already 1 when the wait cleared it
    calls,          \* calls of process() for the current command
    wire,           \* bytes written to the socket in the current cycle
    prov,           \* procedure that completed provisioning in this boot
    bootCause,      \* "hardreset": the button fired in the previous boot, checkReset
                    \* polling; kept until this boot has provisioned
    nDisc,          \* STA_DISCONNECTED events handled in this boot
    rstPressed,     \* hardReset (the interrupt handler) fired in this boot
    cfgNet,         \* index of the wifiConfig handed to esp_wifi_set_config last
    inval,          \* invalidate() has run since the latest change of the link
    tcInval         \* where taskConnect called invalidate() since the last command

shared  == <<connected, proceed, hardRst, connectedBit, nextNet, currNet, link, nDisc>>
leds    == <<led25, led26, toggle>>
ghost   == <<cfgNet, inval, tcInval>>
tcVars  == <<pc, err, peer, sockOpen, comAPDU, time, output, countdown>>
hist    == <<gate, pressed, stale, calls, wire, prov>>
vars    == <<nvsKey, connected, proceed, hardRst, connectedBit, nextNet, currNet,
             mounted, led25, led26, link, pc, err, peer, sockOpen, comAPDU, time,
             output, countdown, rpc, toggle, gate, pressed, stale, calls, wire,
             prov, bootCause, nDisc, rstPressed, wpc, cfgNet, inval, tcInval>>

NoAPDU   == [CLA |-> 0, INS |-> 0]
NoOutput == [data |-> <<>>, length |-> 0]
Lockout  == [data |-> <<SW1_BLOCK, SW2_BLOCK>>, length |-> 2]

\* commands the peer sends in the full model (parseAPDU result: CLA, INS)
Commands  == {[CLA |-> c, INS |-> i] : c \in {0, CLA_CHAIN}, i \in {0, INS_CHAL, INS_AUTH, INS_PSO}}
\* responses process() produces
Responses == {[data |-> <<144, 0>>, length |-> 2], [data |-> <<1, 105, 130>>, length |-> 3]}

\* Volatile state at power-on / after a reset of the chip.
Volatile(cause) ==
    /\ connected = 0 /\ proceed = 0 /\ hardRst = 0 /\ connectedBit = 0
    /\ nextNet = 0 /\ currNet = 0 /\ mounted = FALSE
    /\ led25 = 0 /\ led26 = 0 /\ link = "off"
    /\ pc = "app_main" /\ err = "none" /\ peer = 0 /\ sockOpen = FALSE
    /\ comAPDU = NoAPDU /\ time = 0 /\ output = NoOutput /\ countdown = 0
    /\ rpc = "off" /\ wpc = "off" /\ toggle = 0
    /\ gate = "none" /\ pressed = "none" /\ stale = FALSE /\ calls = 0
    /\ wire = <<>> /\ prov = "none" /\ nDisc = 0 /\ rstPressed = FALSE
    /\ cfgNet = 0 /\ inval = FALSE /\ tcInval = "none"
    /\ bootCause = cause

\* Power-on: NVS is fresh, or holds the key from an earlier life of the device.
Init == nvsKey \in BOOLEAN /\ Volatile("normal")

\* esp_restart(), and the reboot after abort(): every volatile variable
\* returns to its power-on value, NVS keeps its content.  The next boot is
\* recorded as following a hard-reset event when the button fired in this one
\* and checkReset was polling for it.
Reboot ==
    /\ connected' = 0 /\ proceed' = 0 /\ hardRst' = 0 /\ connectedBit' = 0
    /\ nextNet' = 0 /\ currNet' = 0 /\ mounted' = FALSE
    /\ led25' = 0 /\ led26' = 0 /\ link' = "off"
    /\ pc' = "app_main" /\ err' = "none" /\ peer' = 0 /\ sockOpen' = FALSE
    /\ comAPDU' = NoAPDU /\ time' = 0 /\ output' = NoOutput /\ countdown' = 0
    /\ rpc' = "off" /\ wpc' = "off" /\ toggle' = 0
    /\ gate' = "none" /\ pressed' = "none" /\ stale' = FALSE /\ calls' = 0
    /\ wire' = <<>> /\ prov' = "none" /\ nDisc' = 0 /\ rstPressed' = FALSE
    /\ cfgNet' = 0 /\ inval' = FALSE /\ tcInval' = "none"
    /\ bootCause' = IF rstPressed /\ rpc = "poll" THEN "hardreset" ELSE "normal"
    /\ UNCHANGED nvsKey

\* The chip stops: no task runs any more.
Halt ==
    /\ pc' = "halted" /\ rpc' = "off" /\ wpc' = "off" /\ link' = "off"
    /\ UNCHANGED <<nvsKey, connected, proceed, hardRst, connectedBit, nextNet, currNet,
                   mounted, led25, led26, err, peer, sockOpen, comAPDU, time,
                   output, countdown, toggle, gate, pressed, stale, calls, wire,
                   prov, bootCause, rstPressed, nDisc>>
    /\ UNCHANGED ghost

\* abort() (ESP_ERROR_CHECK failure, exit()): the panic handler reboots or
\* halts, depending on the build configuration.
Abort == Reboot \/ Halt


\* ---- pure helpers -------------------------------------------------------
B(b) == IF b THEN 1 ELSE 0      \* value of a C comparison

RECURSIVE BitAnd(_, _)
BitAnd(a, b) ==                 \* the C operator & on non-negative ints
    IF a = 0 \/ b = 0 THEN 0
    ELSE (a % 2) * (b % 2) + 2 * BitAnd(a \div 2, b \div 2)

\* slip: == written for != in the class-byte comparison
Sensitive_eqChain(c) ==
    BitAnd(B(c.CLA = CLA_CHAIN), B(c.INS = INS_AUTH \/ c.INS = INS_PSO)) # 0

\* gpg.c:256  (comAPDU.CLA != 0x10) & (comAPDU.INS == 0x88 || comAPDU.INS == 0x2A)
Sensitive(c) ==
    BitAnd(B(c.CLA # CLA_CHAIN), B(c.INS = INS_AUTH \/ c.INS = INS_PSO)) # 0

\* the tasks exist (xTaskCreate has run and the chip has not stopped)
Running == pc \notin {"app_main", "mountFS", "halted"}

\* initGPIO has hooked the interrupt handlers
Hooked == pc \notin {"app_main", "halted"}

\* ---- app_main -----------------------------------------------------------
\* gpg.c:371-372  initGPIO hooks the two handlers; initNVS aborts
\* (ESP_ERROR_CHECK) on an NVS error.
app_main ==
    /\ pc = "app_main"
    /\ \E nvsOK \in BOOLEAN :
         IF nvsOK
         THEN /\ pc' = "mountFS"
              /\ UNCHANGED <<nvsKey, mounted, rpc, wpc, bootCause, rstPressed, err, peer,
                             sockOpen, comAPDU, time, output, countdown>>
              /\ UNCHANGED ghost
              /\ UNCHANGED shared
              /\ UNCHANGED leds
              /\ UNCHANGED hist
         ELSE Abort

\* gpg.c:373-379  mountFS; exit(0) when it fails, which never returns;
\* otherwise initWiFi (nextNet = 0, esp_wifi_start) and xTaskCreate x 3.
mountFS ==
    /\ pc = "mountFS"
    /\ \E mountOK \in BOOLEAN :
         IF mountOK
         THEN /\ mounted' = TRUE
              /\ nextNet' = 0
              /\ link' = "starting"
              /\ pc' = "nvsOpen"
              /\ rpc' = "poll"
              /\ wpc' = "test"
              /\ UNCHANGED <<nvsKey, connected, proceed, hardRst, connectedBit, currNet,
                             led25, led26, err, peer, sockOpen, comAPDU, time, output,
                             countdown, toggle, bootCause, rstPressed, nDisc>>
              /\ UNCHANGED hist
              /\ UNCHANGED ghost
         ELSE Abort

\* ---- interrupt handlers -------------------------------------------------
proceedHandle ==
    /\ Hooked
    /\ proceed' = 1
    /\ pressed' = IF gate = "wait" /\ pressed = "none"
                  THEN (IF pc \in {"gateOn", "gateOff"} THEN "poll" ELSE "edge")
                  ELSE pressed
    /\ UNCHANGED <<nvsKey, connected, hardRst, connectedBit, nextNet, currNet, mounted,
                   link, nDisc, rpc, wpc, bootCause, rstPressed, gate, stale, calls, wire,
                   prov>>
    /\ UNCHANGED leds
    /\ UNCHANGED tcVars
    /\ UNCHANGED ghost

hardReset ==
    /\ Hooked
    /\ hardRst' = 1
    /\ rstPressed' = TRUE
    /\ UNCHANGED <<nvsKey, connected, proceed, connectedBit, nextNet, currNet, mounted,
                   link, nDisc, rpc, wpc, bootCause>>
    /\ UNCHANGED leds
    /\ UNCHANGED tcVars
    /\ UNCHANGED hist
    /\ UNCHANGED ghost

\* ---- WiFi event handler -------------------------------------------------
\* invalidate() resets the PIN state kept inside libAPDU; it touches none of
\* the variables of gpg.c.  The calls are observed in inval and tcInval.
\* gpg.c:126-132
ev_STA_START ==
    /\ link = "starting"
    /\ currNet' = nextNet
    /\ cfgNet' = currNet'                   \* wifiConfig[currNet]
    /\ nextNet' = (nextNet + 1) % NUMOFNETS
    /\ link' = "connecting"
    /\ UNCHANGED <<nvsKey, connected, proceed, hardRst, connectedBit, mounted, nDisc,
                   rpc, wpc, bootCause, rstPressed, inval, tcInval>>
    /\ UNCHANGED leds
    /\ UNCHANGED tcVars
    /\ UNCHANGED hist

\* slip: the got-address case raises CONNECTED_BIT without calling invalidate()
ev_STA_GOT_IP_noInvalidate ==
    /\ link = "connecting"
    /\ connected' = 1
    /\ inval' = FALSE
    /\ led26' = 1
    /\ connectedBit' = 1
    /\ link' = "up"
    /\ UNCHANGED <<nvsKey, proceed, hardRst, nextNet, currNet, mounted, nDisc, rpc, wpc,
                   bootCause, rstPressed, led25, toggle, cfgNet, tcInval>>
    /\ UNCHANGED tcVars
    /\ UNCHANGED hist

\* gpg.c:133-139
ev_STA_GOT_IP ==
    /\ link = "connecting"
    /\ connected' = 1
    /\ inval' = TRUE                        \* invalidate()
    /\ led26' = 1
    /\ connectedBit' = 1
    /\ link' = "up"
    /\ UNCHANGED <<nvsKey, proceed, hardRst, nextNet, currNet, mounted, nDisc, rpc, wpc,
                   bootCause, rstPressed, led25, toggle, cfgNet, tcInval>>
    /\ UNCHANGED tcVars
    /\ UNCHANGED hist

\* slip: the disconnect case retries without advancing nextNet
ev_STA_DISCONNECTED_noAdvance ==
    /\ link \in {"connecting", "up"}
    /\ nDisc < MaxDisc
    /\ connected' = 0
    /\ led26' = 0
    /\ connectedBit' = 0
    /\ inval' = TRUE
    /\ currNet' = nextNet
    /\ cfgNet' = nextNet
    /\ link' = "connecting"
    /\ nDisc' = nDisc + 1
    /\ UNCHANGED <<nvsKey, proceed, hardRst, nextNet, mounted, rpc, wpc, bootCause,
                   rstPressed, led25, toggle, tcInval>>
    /\ UNCHANGED tcVars
    /\ UNCHANGED hist

\* slip: esp_wifi_set_config is handed wifiConfig[nextNet] after nextNet has
\* been advanced
ev_STA_DISCONNECTED_cfgAfter ==
    /\ link \in {"connecting", "up"}
    /\ nDisc < MaxDisc
    /\ connected' = 0
    /\ inval' = TRUE
    /\ led26' = 0
    /\ connectedBit' = 0
    /\ currNet' = nextNet
    /\ nextNet' = (nextNet + 1) % NUMOFNETS
    /\ cfgNet' = nextNet'
    /\ link' = "connecting"
    /\ nDisc' = nDisc + 1
    /\ UNCHANGED <<nvsKey, proceed, hardRst, mounted, rpc, wpc, bootCause, rstPressed,
                   led25, toggle, tcInval>>
    /\ UNCHANGED tcVars
    /\ UNCHANGED hist

\* gpg.c:140-150
ev_STA_DISCONNECTED ==
    /\ link \in {"connecting", "up"}
    /\ nDisc < MaxDisc
    /\ connected' = 0
    /\ inval' = TRUE                        \* invalidate()
    /\ led26' = 0
    /\ connectedBit' = 0
    /\ currNet' = nextNet
    /\ cfgNet' = nextNet                    \* wifiConfig[nextNet]
    /\ nextNet' = (nextNet + 1) % NUMOFNETS
    /\ link' = "connecting"
    /\ nDisc' = nDisc + 1
    /\ UNCHANGED <<nvsKey, proceed, hardRst, mounted, rpc, wpc, bootCause, rstPressed,
                   led25, toggle, tcInval>>
    /\ UNCHANGED tcVars
    /\ UNCHANGED hist

event_handler == ev_STA_START \/ ev_STA_GOT_IP \/ ev_STA_DISCONNECTED

\* ---- wifiStatus ---------------------------------------------------------
\* gpg.c:362  if (connected == 0); otherwise the task sleeps 500 ms and
\* tests again
ws_test ==
    /\ wpc = "test"
    /\ wpc' = IF connected = 0 THEN "set" ELSE "test"
    /\ UNCHANGED <<nvsKey, mounted, rpc, bootCause, rstPressed>>
    /\ UNCHANGED shared
    /\ UNCHANGED leds
    /\ UNCHANGED tcVars
    /\ UNCHANGED hist
    /\ UNCHANGED ghost

\* gpg.c:363-366  toggle ^= 1; gpio_set_level(GPIO_NUM_26, toggle); 500 ms
ws_set ==
    /\ wpc = "set"
    /\ toggle' = 1 - toggle
    /\ led26' = toggle'
    /\ wpc' = "test"
    /\ UNCHANGED <<nvsKey, mounted, rpc, bootCause, rstPressed, led25>>
    /\ UNCHANGED shared
    /\ UNCHANGED tcVars
    /\ UNCHANGED hist
    /\ UNCHANGED ghost

wifiStatus == ws_test \/ ws_set

\* ---- checkReset ---------------------------------------------------------
\* nvs_erase_key answers ESP_ERR_NVS_NOT_FOUND when the key is absent.
cr_poll ==
    /\ rpc = "poll"
    /\ hardRst = 1
    /\ \E openOK \in BOOLEAN, eraseOK \in BOOLEAN :
         IF openOK /\ eraseOK /\ nvsKey
         THEN /\ nvsKey' = FALSE
              /\ rpc' = "unmount"
              /\ UNCHANGED <<mounted, wpc, bootCause, rstPressed>>
              /\ UNCHANGED shared
              /\ UNCHANGED leds
              /\ UNCHANGED tcVars
              /\ UNCHANGED hist
              /\ UNCHANGED ghost
         ELSE UNCHANGED vars

\* gpg.c:350, 85-90  unmountFS(): the unmount of a released mount returns an
\* error, which ESP_ERROR_CHECK turns into abort()
cr_unmountFS ==
    /\ rpc = "unmount"
    /\ mounted' = FALSE
    /\ rpc' = IF mounted THEN "restart" ELSE "abort"
    /\ UNCHANGED <<nvsKey, wpc, bootCause, rstPressed>>
    /\ UNCHANGED shared
    /\ UNCHANGED leds
    /\ UNCHANGED tcVars
    /\ UNCHANGED hist
    /\ UNCHANGED ghost

cr_abort ==
    /\ rpc = "abort"
    /\ Abort

cr_restart ==
    /\ rpc = "restart"
    /\ Reboot

checkReset == cr_poll \/ cr_unmountFS \/ cr_abort \/ cr_restart


\* ---- taskConnect --------------------------------------------------------
\* what no step of taskConnect before unmountFS writes
tcFrame == UNCHANGED <<connected, connectedBit, nextNet, currNet, link, nDisc, rpc, wpc,
                       toggle, rstPressed, mounted, cfgNet>>

\* gpg.c:183-186  gpio_set_level(25,1); nvs_open
tc_nvsOpen ==
    /\ pc = "nvsOpen"
    /\ led25' = 1
    /\ \E ok \in BOOLEAN :
         IF ok THEN pc' = "nvsGet" /\ UNCHANGED <<err, countdown>>
         ELSE pc' = "exit" /\ err' = "ESP_FAIL" /\ countdown' = Countdown
    /\ tcFrame
    /\ UNCHANGED <<inval, tcInval, bootCause>>
    /\ UNCHANGED <<nvsKey, proceed, hardRst, led26, peer, sockOpen, comAPDU, time, output>>
    /\ UNCHANGED hist

\* gpg.c:188-204  nvs_get_u8, nvs_close and the switch on its result
tc_nvsGet ==
    /\ pc = "nvsGet"
    /\ \E e \in {IF nvsKey THEN "ESP_OK" ELSE "ESP_ERR_NVS_NOT_FOUND", "ESP_FAIL"} :
         /\ err' = e
         /\ pc' = CASE e = "ESP_OK" -> "restoreState"
                    [] e = "ESP_ERR_NVS_NOT_FOUND" -> "initialize"
                    [] OTHER -> "exit"
         /\ countdown' = IF e = "ESP_FAIL" THEN Countdown ELSE countdown
    /\ tcFrame
    /\ UNCHANGED <<inval, tcInval, bootCause>>
    /\ UNCHANGED <<nvsKey, proceed, hardRst, led25, led26, peer, sockOpen, comAPDU, time, output>>
    /\ UNCHANGED hist

\* slip: no goto exit after a failed restoreState()
tc_restoreState_noExit ==
    /\ pc = "restoreState"
    /\ \E ok \in BOOLEAN :
         IF ok
         THEN /\ prov' = "restoreState" /\ UNCHANGED hardRst
         ELSE /\ hardRst' = 1 /\ UNCHANGED prov
    /\ led25' = 0 /\ pc' = "begin" /\ bootCause' = "normal"
    /\ tcFrame
    /\ UNCHANGED <<inval, tcInval>>
    /\ UNCHANGED <<nvsKey, proceed, led26, err, peer, sockOpen, comAPDU, time, output,
                   countdown>>
    /\ UNCHANGED <<gate, pressed, stale, calls, wire>>

\* gpg.c:192-196, 205
tc_restoreState ==
    /\ pc = "restoreState"
    /\ \E ok \in BOOLEAN :
         IF ok
         THEN /\ prov' = "restoreState" /\ led25' = 0 /\ pc' = "begin"
              /\ bootCause' = "normal"
              /\ UNCHANGED <<hardRst, countdown>>
         ELSE /\ hardRst' = 1 /\ pc' = "exit" /\ countdown' = Countdown
              /\ UNCHANGED <<prov, led25, bootCause>>
    /\ tcFrame
    /\ UNCHANGED <<inval, tcInval>>
    /\ UNCHANGED <<nvsKey, proceed, led26, err, peer, sockOpen, comAPDU, time, output>>
    /\ UNCHANGED <<gate, pressed, stale, calls, wire>>

\* initialize() of libAPDU: a successful first-run provisioning stores the
\* key "initialized" in NVS
initialize == nvsKey' = TRUE

\* gpg.c:198-201, 205
tc_initialize ==
    /\ pc = "initialize"
    /\ \E ok \in BOOLEAN :
         IF ok
         THEN /\ initialize /\ prov' = "initialize" /\ led25' = 0 /\ pc' = "begin"
              /\ bootCause' = "normal"
              /\ UNCHANGED countdown
         ELSE /\ pc' = "exit" /\ countdown' = Countdown
              /\ UNCHANGED <<nvsKey, prov, led25, bootCause>>
    /\ tcFrame
    /\ UNCHANGED <<inval, tcInval>>
    /\ UNCHANGED <<proceed, hardRst, led26, err, peer, sockOpen, comAPDU, time, output>>
    /\ UNCHANGED <<gate, pressed, stale, calls, wire>>

\* gpg.c:211  xEventGroupWaitBits(..., CONNECTED_BIT, ..., portMAX_DELAY)
tc_begin ==
    /\ pc = "begin"
    /\ connectedBit = 1
    /\ pc' = "socket"
    /\ gate' = "none" /\ pressed' = "none" /\ stale' = FALSE /\ calls' = 0 /\ wire' = <<>>
    /\ tcFrame
    /\ UNCHANGED <<inval, tcInval, bootCause>>
    /\ UNCHANGED <<nvsKey, proceed, hardRst, led25, led26, err, peer, sockOpen, comAPDU,
                   time, output, countdown, prov>>

\* gpg.c:213-218  IP[currNet] is read, socket()
tc_socket ==
    /\ pc = "socket"
    /\ peer' = currNet
    /\ \E ok \in BOOLEAN :
         IF ok THEN sockOpen' = TRUE /\ pc' = "connect"
         ELSE pc' = "sockFail" /\ UNCHANGED sockOpen
    /\ tcFrame
    /\ UNCHANGED <<inval, tcInval, bootCause>>
    /\ UNCHANGED <<nvsKey, proceed, hardRst, led25, led26, err, comAPDU, time, output,
                   countdown>>
    /\ UNCHANGED hist

\* gpg.c:219-220  one second later: goto exit
tc_sockFail ==
    /\ pc = "sockFail"
    /\ pc' = "exit"
    /\ countdown' = Countdown
    /\ tcFrame
    /\ UNCHANGED <<inval, tcInval, bootCause>>
    /\ UNCHANGED <<nvsKey, proceed, hardRst, led25, led26, err, peer, sockOpen, comAPDU,
                   time, output>>
    /\ UNCHANGED hist

\* slip: a connect failure is treated like a socket failure: goto exit
tc_connect_fatal ==
    /\ pc = "connect"
    /\ \E ok \in BOOLEAN :
         IF ok THEN pc' = "read" /\ UNCHANGED <<sockOpen, inval, tcInval, countdown>>
         ELSE /\ inval' = TRUE /\ tcInval' = "connect"
              /\ sockOpen' = FALSE
              /\ pc' = "exit" /\ countdown' = Countdown
    /\ peer' = 0
    /\ tcFrame
    /\ UNCHANGED bootCause
    /\ UNCHANGED <<nvsKey, proceed, hardRst, led25, led26, err, comAPDU, time, output>>
    /\ UNCHANGED hist

\* slip: the retry after a connect failure skips the wait for CONNECTED_BIT
tc_connect_noWait ==
    /\ pc = "connect"
    /\ \E ok \in BOOLEAN :
         IF ok THEN pc' = "read" /\ UNCHANGED <<sockOpen, inval, tcInval, countdown>>
         ELSE /\ inval' = TRUE /\ tcInval' = "connect"
              /\ sockOpen' = FALSE
              /\ pc' = "socket" /\ UNCHANGED countdown
    /\ peer' = 0
    /\ tcFrame
    /\ UNCHANGED bootCause
    /\ UNCHANGED <<nvsKey, proceed, hardRst, led25, led26, err, comAPDU, time, output>>
    /\ UNCHANGED hist

\* slip: no close(sockfd) after a connect failure
tc_connect_noClose ==
    /\ pc = "connect"
    /\ \E ok \in BOOLEAN :
         IF ok THEN pc' = "read" /\ UNCHANGED <<sockOpen, inval, tcInval, countdown>>
         ELSE /\ inval' = TRUE /\ tcInval' = "connect"
              /\ pc' = "begin" /\ UNCHANGED <<sockOpen, countdown>>
    /\ peer' = 0
    /\ tcFrame
    /\ UNCHANGED bootCause
    /\ UNCHANGED <<nvsKey, proceed, hardRst, led25, led26, err, comAPDU, time, output>>
    /\ UNCHANGED hist

\* gpg.c:224-232  connect() to the address read above; on failure
\* invalidate, close, wait 5 s, goto begin
tc_connect ==
    /\ pc = "connect"
    /\ \E ok \in BOOLEAN :
         IF ok THEN pc' = "read" /\ UNCHANGED <<sockOpen, inval, tcInval>>
         ELSE /\ inval' = TRUE /\ tcInval' = "connect"       \* invalidate()
              /\ sockOpen' = FALSE                            \* close(sockfd)
              /\ pc' = "begin"
    /\ peer' = 0
    /\ tcFrame
    /\ UNCHANGED bootCause
    /\ UNCHANGED <<nvsKey, proceed, hardRst, led25, led26, err, comAPDU, time,
                   output, countdown>>
    /\ UNCHANGED hist

\* slip: the test INS == 0x00 is missing, every parsed command is served
tc_read_fallThrough ==
    /\ pc = "read"
    /\ \E c \in Commands :
         /\ pc' = "classify" /\ comAPDU' = c /\ tcInval' = "none"
         /\ UNCHANGED <<sockOpen, inval>>
    /\ tcFrame
    /\ UNCHANGED bootCause
    /\ UNCHANGED <<nvsKey, proceed, hardRst, led25, led26, err, peer, time, output, countdown>>
    /\ UNCHANGED hist

\* gpg.c:235-243  read(), parseAPDU(), INS == 0x00
tc_read ==
    /\ pc = "read"
    /\ \E c \in Commands :
         IF c.INS = 0
         THEN /\ inval' = TRUE /\ tcInval' = "INS"            \* invalidate()
              /\ sockOpen' = FALSE                            \* close(sockfd)
              /\ pc' = "begin"
              /\ UNCHANGED comAPDU
         ELSE /\ pc' = "classify" /\ comAPDU' = c /\ tcInval' = "none"
              /\ UNCHANGED <<sockOpen, inval>>
    /\ tcFrame
    /\ UNCHANGED bootCause
    /\ UNCHANGED <<nvsKey, proceed, hardRst, led25, led26, err, peer, time, output, countdown>>
    /\ UNCHANGED hist

\* gpg.c:256  the test that decides whether the button is needed
tc_classify ==
    /\ pc = "classify"
    /\ pc' = IF Sensitive(comAPDU) THEN "gateClear" ELSE "process"
    /\ tcFrame
    /\ UNCHANGED <<inval, tcInval, bootCause>>
    /\ UNCHANGED <<nvsKey, proceed, hardRst, led25, led26, err, peer, sockOpen, comAPDU,
                   time, output, countdown>>
    /\ UNCHANGED hist

\* slip: proceed is not cleared before the wait
tc_gateClear_noClear ==
    /\ pc = "gateClear"
    /\ stale' = (proceed = 1)
    /\ time' = 0
    /\ gate' = "wait"
    /\ pressed' = "none"
    /\ pc' = "gateTest"
    /\ tcFrame
    /\ UNCHANGED <<inval, tcInval, bootCause>>
    /\ UNCHANGED <<nvsKey, proceed, hardRst, led25, led26, err, peer, sockOpen, comAPDU,
                   output, countdown, calls, wire, prov>>

\* gpg.c:257-258  proceed = 0; int time = 0;
tc_gateClear ==
    /\ pc = "gateClear"
    /\ stale' = (proceed = 1)
    /\ proceed' = 0
    /\ time' = 0
    /\ gate' = "wait"
    /\ pressed' = "none"
    /\ pc' = "gateTest"
    /\ tcFrame
    /\ UNCHANGED <<inval, tcInval, bootCause>>
    /\ UNCHANGED <<nvsKey, hardRst, led25, led26, err, peer, sockOpen, comAPDU, output,
                   countdown, calls, wire, prov>>

\* slip: no goto writeOutput after the lockout response is set
tc_gateTest_noGoto ==
    /\ pc = "gateTest"
    /\ IF proceed = 0 /\ time < GateLimit
       THEN /\ led25' = 1 /\ led26' = 1
            /\ pc' = "gateOn"
            /\ UNCHANGED <<output, gate>>
       ELSE /\ led26' = 1
            /\ UNCHANGED led25
            /\ IF time = GateLimit
               THEN output' = Lockout /\ gate' = "locked" /\ pc' = "process"
               ELSE gate' = "confirmed" /\ pc' = "process" /\ UNCHANGED output
    /\ tcFrame
    /\ UNCHANGED <<inval, tcInval, bootCause>>
    /\ UNCHANGED <<nvsKey, proceed, hardRst, err, peer, sockOpen, comAPDU, time, countdown>>
    /\ UNCHANGED <<pressed, stale, calls, wire, prov>>

\* gpg.c:260-262 and 269-275  the loop test; then either the first half of an
\* iteration (LEDs on) or the end of the wait and the test time == 30
tc_gateTest ==
    /\ pc = "gateTest"
    /\ IF proceed = 0 /\ time < GateLimit
       THEN /\ led25' = 1 /\ led26' = 1
            /\ pc' = "gateOn"
            /\ UNCHANGED <<output, gate>>
       ELSE /\ led26' = 1
            /\ UNCHANGED led25
            /\ IF time = GateLimit
               THEN output' = Lockout /\ gate' = "locked" /\ pc' = "writeOutput"
               ELSE gate' = "confirmed" /\ pc' = "process" /\ UNCHANGED output
    /\ tcFrame
    /\ UNCHANGED <<inval, tcInval, bootCause>>
    /\ UNCHANGED <<nvsKey, proceed, hardRst, err, peer, sockOpen, comAPDU, time, countdown>>
    /\ UNCHANGED <<pressed, stale, calls, wire, prov>>

\* gpg.c:263-265  250 ms have passed; LEDs off
tc_gateOn ==
    /\ pc = "gateOn"
    /\ led25' = 0 /\ led26' = 0
    /\ pc' = "gateOff"
    /\ tcFrame
    /\ UNCHANGED <<inval, tcInval, bootCause>>
    /\ UNCHANGED <<nvsKey, proceed, hardRst, err, peer, sockOpen, comAPDU, time, output,
                   countdown>>
    /\ UNCHANGED hist

\* gpg.c:266-267  another 250 ms have passed; time++
tc_gateOff ==
    /\ pc = "gateOff"
    /\ time' = time + 1
    /\ pc' = "gateTest"
    /\ tcFrame
    /\ UNCHANGED <<inval, tcInval, bootCause>>
    /\ UNCHANGED <<nvsKey, proceed, hardRst, led25, led26, err, peer, sockOpen, comAPDU,
                   output, countdown>>
    /\ UNCHANGED hist

\* gpg.c:279-309  LED 25 on, process(comAPDU, &output), LED 25 off
tc_process ==
    /\ pc = "process"
    /\ \E o \in Responses : output' = o
    /\ calls' = calls + 1
    /\ led25' = 0
    /\ pc' = "writeOutput"
    /\ tcFrame
    /\ UNCHANGED <<inval, tcInval, bootCause>>
    /\ UNCHANGED <<nvsKey, proceed, hardRst, led26, err, peer, sockOpen, comAPDU, time,
                   countdown>>
    /\ UNCHANGED <<gate, pressed, stale, wire, prov>>

\* gpg.c:324-331  write(); on success close and loop
tc_writeOutput ==
    /\ pc = "writeOutput"
    /\ \E ok \in BOOLEAN :
         IF ok
         THEN /\ wire' = SubSeq(output.data, 1, output.length)
              /\ sockOpen' = FALSE
              /\ pc' = "begin"
         ELSE /\ pc' = "writeFail"
              /\ UNCHANGED <<wire, sockOpen>>
    /\ comAPDU' = NoAPDU /\ time' = 0 /\ output' = NoOutput
    /\ tcFrame
    /\ UNCHANGED <<inval, tcInval, bootCause>>
    /\ UNCHANGED <<nvsKey, proceed, hardRst, led25, led26, err, peer, countdown>>
    /\ UNCHANGED <<gate, pressed, stale, calls, prov>>

\* slip: goto begin for goto exit after a failed write
tc_writeFail_begin ==
    /\ pc = "writeFail"
    /\ sockOpen' = FALSE
    /\ pc' = "begin"
    /\ tcFrame
    /\ UNCHANGED <<inval, tcInval, bootCause>>
    /\ UNCHANGED <<nvsKey, proceed, hardRst, led25, led26, err, peer, comAPDU, time, output,
                   countdown>>
    /\ UNCHANGED hist

\* gpg.c:325-328  one second later: close(sockfd); goto exit
tc_writeFail ==
    /\ pc = "writeFail"
    /\ sockOpen' = FALSE
    /\ pc' = "exit"
    /\ countdown' = Countdown
    /\ tcFrame
    /\ UNCHANGED <<inval, tcInval, bootCause>>
    /\ UNCHANGED <<nvsKey, proceed, hardRst, led25, led26, err, peer, comAPDU, time, output>>
    /\ UNCHANGED hist

\* gpg.c:335-338  one round of the countdown
tc_countdown ==
    /\ pc = "exit"
    /\ countdown > 0
    /\ countdown' = countdown - 1
    /\ tcFrame
    /\ UNCHANGED <<inval, tcInval, bootCause>>
    /\ UNCHANGED <<nvsKey, proceed, hardRst, led25, led26, pc, err, peer, sockOpen,
                   comAPDU, time, output>>
    /\ UNCHANGED hist

\* gpg.c:340  unmountFS(): ESP_ERROR_CHECK aborts when the mount is gone
tc_unmountFS ==
    /\ pc = "exit"
    /\ countdown = 0
    /\ mounted' = FALSE
    /\ pc' = IF mounted THEN "restart" ELSE "abort"
    /\ UNCHANGED <<nvsKey, connected, proceed, hardRst, connectedBit, nextNet,
                   currNet, link, nDisc, rpc, wpc, bootCause, rstPressed, err, peer,
                   sockOpen, comAPDU, time, output, countdown>>
    /\ UNCHANGED leds
    /\ UNCHANGED hist
    /\ UNCHANGED ghost

\* gpg.c:88  abort() out of ESP_ERROR_CHECK
tc_abort ==
    /\ pc = "abort"
    /\ Abort

\* gpg.c:341  esp_restart()
tc_restart ==
    /\ pc = "restart"
    /\ Reboot

taskConnect ==
    \/ tc_nvsOpen \/ tc_nvsGet \/ tc_restoreState \/ tc_initialize
    \/ tc_begin \/ tc_socket \/ tc_sockFail \/ tc_connect \/ tc_read \/ tc_classify
    \/ tc_gateClear \/ tc_gateTest \/ tc_gateOn \/ tc_gateOff
    \/ tc_process \/ tc_writeOutput \/ tc_writeFail
    \/ tc_countdown \/ tc_unmountFS \/ tc_abort \/ tc_restart

Next ==
    \/ app_main
    \/ mountFS
    \/ proceedHandle
    \/ hardReset
    \/ event_handler
    \/ wifiStatus
    \/ checkReset
    \/ taskConnect

Spec == Init /\ [][Next]_vars


\* ---- further specifications ---------------------------------------------
\* Executions in which the hard-reset button interrupt never fires.
NextNoButton ==
    \/ app_main
    \/ mountFS
    \/ proceedHandle
    \/ event_handler
    \/ wifiStatus
    \/ checkReset
    \/ taskConnect

SpecNoButton == Init /\ [][NextNoButton]_vars

\* The test of gpg.c:256 on every command parseAPDU can hand over: any class
\* byte, any instruction byte but 0x00 (that one never reaches the test).
AllAPDU == {[CLA |-> c, INS |-> i] : c \in 0..255, i \in 1..255}

InitClassify ==
    /\ nvsKey = TRUE
    /\ connected = 1 /\ proceed \in {0, 1} /\ hardRst = 0 /\ connectedBit = 1
    /\ nextNet = 1 % NUMOFNETS /\ currNet = 0 /\ mounted = TRUE
    /\ led25 = 0 /\ led26 = 1 /\ link = "up"
    /\ pc = "classify" /\ err = "ESP_OK" /\ peer = 0 /\ sockOpen = TRUE
    /\ comAPDU \in AllAPDU /\ time = 0 /\ output = NoOutput /\ countdown = 0
    /\ rpc = "poll" /\ toggle = 0
    /\ gate = "none" /\ pressed = "none" /\ stale = FALSE /\ calls = 0
    /\ wire = <<>> /\ prov = "restoreState" /\ nDisc = 0
    /\ bootCause = "normal" /\ rstPressed = FALSE
    /\ wpc = "test" /\ cfgNet = 0 /\ inval = TRUE /\ tcInval = "none"

NextClassify == tc_classify \/ tc_gateClear

SpecClassify == InitClassify /\ [][NextClassify]_vars

\* ---- positions of taskConnect -------------------------------------------
LoopPcs == {"begin", "socket", "sockFail", "connect", "read", "classify", "gateClear",
            "gateTest", "gateOn", "gateOff", "process", "writeOutput", "writeFail"}
ExitPcs == {"exit", "restart", "abort"}
\* pc values a step of another task can produce (reset or stop of the chip)
Stopped == {"app_main", "halted"}


\* ---- C1 -----------------------------------------------------------------
\* C1: for a sensitive command, when proceedHandle fires during one of the
\* polling iterations of the wait (any of the 30, the last included), the
\* wait ends "confirmed", never with the lockout response, and process() is
\* called exactly once for the command.
C1_PressConfirms ==
    (pressed = "poll" /\ gate # "wait") =>
        /\ gate = "confirmed"
        /\ output # Lockout
        /\ calls = (IF pc = "process" THEN 0 ELSE 1)

\* ---- C2 -----------------------------------------------------------------
\* C2: for a sensitive command, when proceed is never set during the wait,
\* the wait ends "locked" after exactly 30 iterations, process() is not
\* called for the command, the response handed to write() has length 2 and
\* bytes 0x69 0x83, and the socket is closed after the write.
C2_Lockout ==
    [][ /\ (gate = "wait" /\ gate' # "wait" /\ pressed = "none" /\ pc' \notin Stopped)
            => /\ gate' = "locked"
               /\ time = GateLimit
               /\ output' = [data |-> <<105, 131>>, length |-> 2]
               /\ pc' = "writeOutput"
        /\ (gate' = "locked") => (calls' = 0 /\ pc' # "process")
        /\ (gate = "locked" /\ pc = "writeOutput" /\ pc' = "begin")
            => (wire' = <<105, 131>> /\ ~sockOpen')
        /\ (gate = "locked" /\ pc = "writeFail" /\ pc' = "exit") => ~sockOpen'
      ]_vars

C2_Witness ==
    /\ gate = "locked" /\ pressed = "none" /\ pc = "begin"
    /\ wire = <<105, 131>> /\ calls = 0 /\ ~sockOpen

\* ---- C3 -----------------------------------------------------------------
\* C3: the button wait is entered exactly for the commands with INS 0x88 or
\* 0x2A and CLA other than 0x10; every other command, chained ones included,
\* goes from the test straight to process().  (The test is computed with the
\* bitwise &; the right-hand side here is the logical conjunction.)
C3_Classification ==
    /\ (pc \in {"gateClear", "gateTest"}) =>
           (comAPDU.INS \in {136, 42} /\ comAPDU.CLA # 16)
    /\ (pc = "process" /\ gate = "none") =>
           ~(comAPDU.INS \in {136, 42} /\ comAPDU.CLA # 16)

C3_Witness ==
    /\ pc = "process" /\ gate = "none"
    /\ comAPDU.CLA = 16 /\ comAPDU.INS = 136

\* ---- C4 -----------------------------------------------------------------
\* C4 as claimed: after a failed write taskConnect closes the socket and goes
\* back to the wait for CONNECTED_BIT.
C4_WriteFailureResumes ==
    [][ (pc = "writeFail" /\ pc' \notin ({"writeFail"} \cup Stopped))
            => (pc' = "begin" /\ ~sockOpen') ]_vars

\* C4 amended: after a failed write taskConnect closes the socket and enters
\* the restart path (countdown, unmountFS, esp_restart); it leaves that path
\* only by the reset (or stop) of the chip, never back to the wait.
C4_WriteFailureRestarts ==
    [][ /\ (pc = "writeFail" /\ pc' \notin ({"writeFail"} \cup Stopped))
            => (pc' = "exit" /\ countdown' = Countdown /\ ~sockOpen')
        /\ (pc \in ExitPcs) => (pc' \in ExitPcs \cup Stopped)
        /\ (pc = "exit" /\ pc' = "restart") => (countdown = 0 /\ ~mounted')
      ]_vars

\* a command was answered (process() ran or the lockout was set), the write
\* failed, and taskConnect is about to call esp_restart
C4_Witness ==
    /\ pc = "restart" /\ ~mounted /\ ~sockOpen
    /\ (calls = 1 \/ gate = "locked") /\ wire = <<>>

\* ---- C5 -----------------------------------------------------------------
\* C5 as claimed: after k disconnect events nextNet = k mod N.
C5_AfterKDisconnects ==
    (nDisc >= 1) => (nextNet = nDisc % NUMOFNETS)

\* C5 amended: nextNet advances by exactly one modulo N in the STA_START
\* event and in every STA_DISCONNECTED event, the network tried is the one
\* nextNet named, nothing else changes nextNet within a boot; hence after the
\* start event and k disconnect events nextNet = (k + 1) mod N.
C5_Cyclic ==
    [][ /\ (link = "starting" /\ link' = "connecting")
            => (nextNet' = (nextNet + 1) % NUMOFNETS /\ currNet' = nextNet)
        /\ (nDisc' = nDisc + 1)
            => (nextNet' = (nextNet + 1) % NUMOFNETS /\ currNet' = nextNet)
        /\ (nDisc' = nDisc /\ link' \in {link, "up"} /\ pc' \notin Stopped)
            => nextNet' = nextNet
        /\ (link' \in {"connecting", "up"})
            => nextNet' = (nDisc' + 1) % NUMOFNETS
      ]_vars

\* every candidate has been tried once and the first one is tried again
C5_Witness ==
    /\ nDisc = NUMOFNETS /\ currNet = 0 /\ nextNet = 1 % NUMOFNETS
    /\ link = "connecting"


\* ---- C6 -----------------------------------------------------------------
\* C6: in a boot that found the key "initialized" absent the session loop is
\* reached only after initialize() succeeded; in a boot that found it present
\* only after restoreState() succeeded; and the boot that follows a boot in
\* which the hard-reset button fired (checkReset polling for it) never takes
\* the restore path: it finds the key absent and reaches the loop by
\* initialize().
C6_Provisioning ==
    /\ (pc \in LoopPcs) =>
          /\ err \in {"ESP_OK", "ESP_ERR_NVS_NOT_FOUND"}
          /\ (err = "ESP_ERR_NVS_NOT_FOUND") => (prov = "initialize")
          /\ (err = "ESP_OK") => (prov = "restoreState")
    /\ (bootCause = "hardreset") =>
          /\ err # "ESP_OK"
          /\ pc # "restoreState"
          /\ prov # "restoreState"
          /\ (pc \in {"app_main", "mountFS", "nvsOpen", "nvsGet"}) => ~nvsKey

\* ---- C7 -----------------------------------------------------------------
\* C7: in an execution in which the hard-reset button interrupt never fires
\* the key "initialized", once present, is never erased, whatever happens in
\* the boots (a failing restoreState() included).
C7_NeverErased ==
    [][ nvsKey => nvsKey' ]_vars

\* ---- C8 -----------------------------------------------------------------
\* C8: the wait clears proceed before it starts polling, and it ends
\* "confirmed" only when proceedHandle fired after that clearing; a press
\* made earlier (before a link event, during an earlier command) is
\* discarded, so every confirmed command has a press of its own.
C8_FreshPress ==
    [][ /\ (pc = "gateClear" /\ pc' = "gateTest") => (proceed' = 0 /\ time' = 0)
        /\ (gate = "wait" /\ gate' = "confirmed") => (pressed # "none" /\ proceed = 1)
        /\ (gate' = "confirmed") => (gate \in {"wait", "confirmed"})
      ]_vars

\* a press made before the wait, after a link loss, did not pass the command
C8_Witness ==
    /\ stale /\ nDisc >= 1 /\ pressed = "none"
    /\ gate = "locked" /\ pc = "writeOutput" /\ calls = 0

\* ---- C9 -----------------------------------------------------------------
\* C9 as claimed (the part that fails): a storage mount failure at boot is
\* resolved by the controlled restart path of taskConnect.
C9_MountFailureRestarts ==
    [][ (pc = "mountFS" /\ pc' \notin {"mountFS", "nvsOpen"})
            => (pc' = "exit" /\ countdown' = Countdown) ]_vars

\* C9 amended: every fatal condition taskConnect meets (NVS open or read
\* error, initialize or restore failure, socket allocation failure) sends it
\* to the exit label: countdown, unmountFS, then esp_restart with the mount
\* released; it never enters or re-enters the session loop in that boot, so
\* no command is received or processed after the condition.  A mount failure
\* at boot is not handled by this path: app_main stops in exit(0) with
\* nothing mounted and no task created.
C9_FatalRestarts ==
    [][ /\ (pc' \in LoopPcs \ {"sockFail"})
            => /\ prov' # "none"
               /\ err' \in {"ESP_OK", "ESP_ERR_NVS_NOT_FOUND"}
               /\ pc \in (LoopPcs \ {"sockFail"}) \cup {"initialize", "restoreState"}
        /\ (err' = "ESP_FAIL") => (pc' \in ExitPcs \cup Stopped)
        /\ (pc \in {"initialize", "restoreState"} /\ pc' # pc /\ prov' = "none")
            => (pc' \in ExitPcs \cup Stopped)
        /\ (pc = "sockFail" /\ pc' # pc) => (pc' \in ExitPcs \cup Stopped)
        /\ (pc \in ExitPcs) => (pc' \in ExitPcs \cup Stopped)
        /\ (pc \in ExitPcs /\ pc' \in ExitPcs)
            => (calls' = calls /\ wire' = wire /\ comAPDU' = comAPDU /\ ~sockOpen')
        /\ (pc' = "exit" /\ pc # "exit") => countdown' = Countdown
        /\ (pc = "exit" /\ pc' = "restart") => (countdown = 0 /\ mounted /\ ~mounted')
        /\ (pc = "restart") => (~mounted /\ pc' \in {"restart"} \cup Stopped)
        /\ (pc = "mountFS" /\ pc' \notin {"mountFS", "nvsOpen"})
            => (pc' \in Stopped /\ ~mounted' /\ rpc' = "off")
      ]_vars

\* a socket allocation failure has led to the released mount and esp_restart
C9_Witness ==
    /\ pc = "restart" /\ ~mounted /\ prov # "none"
    /\ calls = 0 /\ gate = "none" /\ ~sockOpen /\ rpc = "poll"

\* ---- C10 ----------------------------------------------------------------
\* C10 (what it requires of every finite run): a hard-reset request is never
\* dropped; the chip is not reset with hardRst set, checkReset still polling
\* for it and the key still stored (the next boot would restore).
C10_RequestNeverDropped ==
    [][ (hardRst = 1 /\ rpc = "poll" /\ hardRst' = 0) => ~nvsKey' ]_vars

\* ---- C11 ----------------------------------------------------------------
\* C11: when the parsed command has INS 0x00, taskConnect calls invalidate(),
\* closes the socket and goes back to the wait for CONNECTED_BIT; for that
\* connection the button wait is not entered, process() is not called and
\* nothing is written to the socket.  A command with another INS is handed
\* to the test of the button wait.
C11_ZeroInstruction ==
    [][ /\ (pc = "read" /\ pc' \notin ({"read", "classify"} \cup Stopped))
            => /\ pc' = "begin"
               /\ tcInval' = "INS" /\ inval'
               /\ ~sockOpen'
        /\ (pc = "read" /\ pc' = "classify") => (comAPDU'.INS # 0 /\ sockOpen')
        /\ (tcInval' = "INS") => (gate' = "none" /\ calls' = 0 /\ wire' = <<>>)
      ]_vars

C11_Witness ==
    /\ pc = "begin" /\ tcInval = "INS" /\ inval /\ ~sockOpen
    /\ gate = "none" /\ calls = 0 /\ wire = <<>> /\ comAPDU = NoAPDU

\* ---- C12 ----------------------------------------------------------------
\* C12: a failed connect() is not fatal: taskConnect calls invalidate(),
\* closes the socket, waits and goes back to the wait for CONNECTED_BIT, from
\* where it tries again; that path changes neither nextNet nor currNet (nor
\* the configuration applied), and it starts no countdown, unmount or restart.
C12_ConnectFailure ==
    [][ /\ (pc = "connect" /\ pc' \notin ({"connect", "read"} \cup Stopped))
            => /\ pc' = "begin"
               /\ tcInval' = "connect" /\ inval'
               /\ ~sockOpen'
               /\ nextNet' = nextNet /\ currNet' = currNet /\ cfgNet' = cfgNet
               /\ link' = link /\ nDisc' = nDisc
               /\ mounted' = mounted /\ countdown' = countdown /\ nvsKey' = nvsKey
        /\ (pc = "begin" /\ tcInval = "connect" /\ pc' \notin ({"begin"} \cup Stopped))
            => (pc' = "socket" /\ connectedBit = 1)
      ]_vars

\* the attempt that follows a failed one is under way
C12_Witness ==
    /\ pc = "connect" /\ tcInval = "connect" /\ sockOpen /\ mounted

\* ---- C13 ----------------------------------------------------------------
\* C13: hardRst is written only by the hardReset interrupt handler, connected
\* only by the WiFi event handler, proceed is set only by the proceedHandle
\* interrupt handler and cleared only by the button wait of taskConnect (the
\* reset of the chip apart, which clears all three).
C13_SingleWriter ==
    [][ /\ (hardRst' # hardRst /\ pc' # "app_main")
            => (hardRst' = 1 /\ rstPressed' /\ pc' = pc /\ rpc' = rpc /\ link' = link)
        /\ (connected' # connected /\ pc' # "app_main")
            => (link' # link /\ pc' = pc /\ rpc' = rpc /\ wpc' = wpc)
        /\ (proceed = 0 /\ proceed' = 1)
            => (pc' = pc /\ rpc' = rpc /\ wpc' = wpc /\ link' = link /\ hardRst' = hardRst)
        /\ (proceed = 1 /\ proceed' = 0 /\ pc' # "app_main")
            => (pc = "gateClear" /\ pc' = "gateTest")
      ]_vars

\* ---- C14 ----------------------------------------------------------------
\* C14: taskConnect creates a socket only on leaving the wait of gpg.c:211
\* with CONNECTED_BIT set, and calls connect() only on the socket created
\* after that wait; a failed connect() leads back to the wait, never straight
\* to socket() or connect(); and the wait is reached only after initialize()
\* or restoreState() succeeded in this boot.
C14_WaitPrecedesConnect ==
    [][ /\ (pc' = "socket" /\ pc # "socket") => (pc = "begin" /\ connectedBit = 1)
        /\ (pc' = "connect" /\ pc # "connect") => (pc = "socket" /\ sockOpen')
        /\ (pc = "connect" /\ pc' \notin ({"connect", "read"} \cup Stopped)) => pc' = "begin"
        /\ (pc' = "begin") => prov' # "none"
      ]_vars

\* after a failed connect() and a loss of the link, the wait has returned on
\* the next link and the socket for the retry is about to be created
C14_Witness ==
    /\ pc = "socket" /\ tcInval = "connect" /\ nDisc >= 1
    /\ link = "up" /\ connectedBit = 1 /\ prov # "none"

\* ---- C15 ----------------------------------------------------------------
\* positions of taskConnect in which the button wait drives GPIO 26
Pulsing == pc \in {"gateTest", "gateOn", "gateOff"}

\* C15: while connected is 0 every round of wifiStatus toggles GPIO 26; and
\* whenever the link is up (and the button wait is not pulsing the LED)
\* GPIO 26 is on, however the steps of wifiStatus interleave with the
\* STA_GOT_IP handler.
C15_Indicator ==
    /\ [][ (wpc = "set" /\ wpc' = "test") => (toggle' = 1 - toggle /\ led26' = toggle') ]_vars
    /\ []((link = "up" /\ connected = 1 /\ ~Pulsing) => led26 = 1)

\* ---- C16 ----------------------------------------------------------------
\* C16: whenever the link is up, currNet is the index of the wifiConfig that
\* was handed to esp_wifi_set_config for the attempt that produced the link,
\* and nextNet = (currNet + 1) mod N.
C16_CurrentIndex ==
    (link = "up") => (currNet = cfgNet /\ nextNet = (currNet + 1) % NUMOFNETS)

\* the list has been gone through once and the link is up on the first
\* network again
C16_Witness ==
    /\ link = "up" /\ connected = 1 /\ nDisc = NUMOFNETS
    /\ currNet = 0 /\ cfgNet = 0

C18_PeerOfLink ==
    [][ /\ (pc = "socket" /\ pc' \in {"connect", "sockFail"}) => link = "up"
        /\ (pc = "connect" /\ pc' \in {"read", "begin"})
            => (link = "up" /\ peer = currNet)
      ]_vars

\* ---- C19 ----------------------------------------------------------------
\* C19: unmountFS() is never called on a mount that has already been
\* released in this boot, whatever the interleaving of the exit path of
\* taskConnect with the hard-reset path of checkReset.
C19_UnmountOnce ==
    pc # "abort" /\ rpc # "abort"

\* ---- C20 ----------------------------------------------------------------
\* positions of taskConnect between socket() and close()
SocketPcs == {"connect", "read", "classify", "gateClear", "gateTest", "gateOn",
              "gateOff", "process", "writeOutput", "writeFail"}

\* C20: taskConnect holds a socket exactly between a successful socket() and
\* the close() that ends the connection cycle: none is open at the wait for
\* CONNECTED_BIT, when socket() is called (so never two), after a socket
\* allocation failure, or anywhere on the exit path.
C20_SocketClosed ==
    /\ (pc \in SocketPcs) => sockOpen
    /\ (pc \in {"nvsOpen", "nvsGet", "restoreState", "initialize", "begin", "socket",
                "sockFail"} \cup ExitPcs) => ~sockOpen

\* a failed write has closed the socket and entered the exit path
C20_Witness ==
    /\ pc = "exit" /\ countdown = Countdown /\ ~sockOpen
    /\ (calls = 1 \/ gate = "locked") /\ wire = <<>>

====
